---- MODULE Spec2Model ----
(***************************************************************************)
(* Model of ollama_model_packer.py: find_model_files (name resolution,     *)
(* manifest lookup, fallback scan, blob enumeration, listing fallback) and *)
(* package_model (staging directory, copy, archive, cleanup).              *)
(*                                                                         *)
(* Strings are sequences of symbols.  A symbol is one character ("a", "A", *)
(* "/", ":", "_", "-") or one fixed literal of the program kept whole      *)
(* ("manifests", "registry.ollama.ai", "library", "blobs", "latest", the   *)
(* storage root "ROOT", ".tar", ".gz").                                    *)
(***************************************************************************)
EXTENDS Integers, Sequences, FiniteSets, TLC

VARIABLES
    fs,          \* the storage root: manifests tree, manifest document, blobs, `ollama list` output
    lpc,         \* position of a direct call of find_model_files: "call" | "done"
    lname,       \* model_name argument of that call
    lres,        \* what that call produced
    pc,          \* position inside package_model
    model_name,  \* package_model's argument
    timestamp,   \* the second read by datetime.now() at line 208
    model_files, \* result of find_model_files inside package_model
    copied,      \* index of the copy loop, lines 239-249
    clock,       \* wall clock, in seconds
    staging,     \* output_dir: temp directories, path -> set of relative paths in it
    archives,    \* output_dir: archive files, path -> [entries, complete, writer]
    run,         \* number of the current package_model invocation
    hist,        \* per invocation: what it did and how it ended
    faults       \* I/O errors and signals so far

vars == <<fs, lpc, lname, lres, pc, model_name, timestamp, model_files, copied,
          clock, staging, archives, run, hist, faults>>

locVars == <<lpc, lname, lres>>
pkgVars == <<pc, model_name, timestamp, model_files, copied, clock, staging,
             archives, run, hist, faults>>

----------------------------------------------------------------------------
(* Bounds *)
MaxNameLen == 5
MaxDirs == 2
MaxFiles == 2
MaxLayers == 2
MaxBlobs == 2
MaxClock == 1
MaxRuns == 2
MaxFaults == 2

----------------------------------------------------------------------------
(* Strings *)

Range(s) == {s[i] : i \in DOMAIN s}

SeqsUpTo(S, n) == UNION {[1..k -> S] : k \in 0..n}

\* str.lower(), symbol by symbol
LowerSym(c) == IF c = "A" THEN "a" ELSE IF c = "X" THEN "x" ELSE c

Lower(s) == [i \in DOMAIN s |-> LowerSym(s[i])]

\* Python's `sub in s`
Contains(sub, s) ==
    \E i \in 0..(Len(s) - Len(sub)) : SubSeq(s, i + 1, i + Len(sub)) = sub

StartsWith(s, p) == Len(p) <= Len(s) /\ SubSeq(s, 1, Len(p)) = p

EndsWith(s, p) == Len(p) <= Len(s) /\ SubSeq(s, Len(s) - Len(p) + 1, Len(s)) = p

\* index of the first / last occurrence of c in s (0 when absent)
FirstIndex(s, c) ==
    IF c \in Range(s) THEN CHOOSE i \in DOMAIN s : s[i] = c /\ \A j \in 1..(i - 1) : s[j] # c
    ELSE 0

LastIndex(s, c) ==
    IF c \in Range(s) THEN CHOOSE i \in DOMAIN s : s[i] = c /\ \A j \in (i + 1)..Len(s) : s[j] # c
    ELSE 0

\* s.split(c, 1): the parts before and after the first c
SplitFirst(s, c) ==
    LET i == FirstIndex(s, c) IN <<SubSeq(s, 1, i - 1), SubSeq(s, i + 1, Len(s))>>

\* s.replace(a, b)
Replace(s, a, b) == [i \in DOMAIN s |-> IF s[i] = a THEN b ELSE s[i]]

\* os.path.join(a, b) on posix
Join2(a, b) ==
    IF StartsWith(b, <<"/">>) THEN b
    ELSE IF a = <<>> \/ EndsWith(a, <<"/">>) THEN a \o b
    ELSE a \o <<"/">> \o b

RECURSIVE JoinFrom(_, _, _)
JoinFrom(acc, parts, i) ==
    IF i > Len(parts) THEN acc ELSE JoinFrom(Join2(acc, parts[i]), parts, i + 1)

\* os.path.join(parts[1], parts[2], ...)
JoinPath(parts) == JoinFrom(parts[1], parts, 2)

\* os.path.relpath(p, base) for p below base
RelPath(p, base) ==
    IF StartsWith(p, base \o <<"/">>) THEN SubSeq(p, Len(base) + 2, Len(p)) ELSE p

----------------------------------------------------------------------------
(* The file system below the storage root *)

BaseDir == <<"ROOT">>

\* full paths of the files of the manifests tree, as os.walk reports them
TreeFiles(f) ==
    UNION {{JoinPath(<<f.tree[d].root, f.tree[d].files[k]>>) : k \in DOMAIN f.tree[d].files} :
        d \in DOMAIN f.tree}

BlobFiles(f) == {JoinPath(<<BaseDir, <<"blobs">>, f.blobs[k]>>) : k \in DOMAIN f.blobs}

\* a directory exists when it is the storage root, a directory of the walk or an ancestor of one
IsDir(f, p) ==
    f.rootExists /\
    (\/ p = BaseDir
     \/ p = JoinPath(<<BaseDir, <<"manifests">> >>)
     \/ p = JoinPath(<<BaseDir, <<"blobs">> >>) /\ f.blobsDir
     \/ \E d \in DOMAIN f.tree : f.tree[d].root = p \/ StartsWith(f.tree[d].root, p \o <<"/">>))

IsFile(f, p) == f.rootExists /\ (p \in TreeFiles(f) \/ (f.blobsDir /\ p \in BlobFiles(f)))

\* os.path.exists
Exists(f, p) == IsFile(f, p) \/ IsDir(f, p)

----------------------------------------------------------------------------
(* find_model_files *)

\* lines 90-95: name and version
ParseName(mn) ==
    IF ":" \in Range(mn)
    THEN LET p == SplitFirst(mn, ":") IN [name |-> p[1], version |-> p[2]]
    ELSE [name |-> mn, version |-> <<"latest">>]

\* line 102: username and modelname (no username for a library model)
SplitNamespace(name) ==
    IF "/" \in Range(name)
    THEN LET p == SplitFirst(name, "/") IN [username |-> p[1], modelname |-> p[2]]
    ELSE [username |-> <<>>, modelname |-> name]

\* a user model looked up below the default registry
CandidatePathUnderRegistry(name, version, base_dir) ==
    JoinPath(<<base_dir, <<"manifests">>, <<"registry.ollama.ai">>,
               IF "/" \in Range(name) THEN SplitNamespace(name).username ELSE <<"library">>,
               SplitNamespace(name).modelname, version>>)

\* lines 99-119: the candidate manifest path
CandidatePath(name, version, base_dir) ==
    IF "/" \in Range(name)
    THEN LET p == SplitNamespace(name)
         IN JoinPath(<<base_dir, <<"manifests">>, p.username, p.modelname, version>>)
    ELSE JoinPath(<<base_dir, <<"manifests">>, <<"registry.ollama.ai">>, <<"library">>,
                    name, version>>)

\* os.walk(top): the directories of the tree at or below top, in walk order
RECURSIVE WalkFrom(_, _, _)
WalkFrom(tree, top, i) ==
    IF i > Len(tree) THEN <<>>
    ELSE (IF tree[i].root = top \/ StartsWith(tree[i].root, top \o <<"/">>)
          THEN <<tree[i]>> ELSE <<>>) \o WalkFrom(tree, top, i + 1)

Walk(f, top) == WalkFrom(f.tree, top, 1)

\* line 130
Matches(name, file, root) ==
    Contains(Lower(name), Lower(file)) \/ Contains(Lower(name), Lower(root))

\* lines 129-134: the inner loop stops at the first matching file of one directory
FirstMatch(files, name, root) ==
    IF \E k \in DOMAIN files : Matches(name, files[k], root)
    THEN CHOOSE k \in DOMAIN files :
            Matches(name, files[k], root) /\ \A j \in 1..(k - 1) : ~Matches(name, files[j], root)
    ELSE 0

\* lines 128-134: the outer loop visits every directory of the walk
RECURSIVE ScanFrom(_, _, _, _)
ScanFrom(walk, i, name, manifest_path) ==
    IF i > Len(walk) THEN manifest_path
    ELSE LET k == FirstMatch(walk[i].files, name, walk[i].root)
         IN ScanFrom(walk, i + 1, name,
                     IF k > 0 THEN JoinPath(<<walk[i].root, walk[i].files[k]>>)
                     ELSE manifest_path)

\* lines 122-134
ResolveManifest(f, name, candidate, base_dir) ==
    IF ~Exists(f, candidate)
    THEN LET manifests_dir == JoinPath(<<base_dir, <<"manifests">>, <<"registry.ollama.ai">> >>)
         IN IF Exists(f, manifests_dir)
            THEN ScanFrom(Walk(f, manifests_dir), 1, name, candidate)
            ELSE candidate
    ELSE candidate

\* lines 155-158
BlobPath(digest, base_dir) == JoinPath(<<base_dir, <<"blobs">>, Replace(digest, ":", "-")>>)

\* the config entry processed before the layers
AllLayersConfigFirst(doc) == IF doc.hasConfig THEN <<doc.config>> \o doc.layers ELSE doc.layers

\* lines 146-150: layers, with the config entry appended
AllLayers(doc) == IF doc.hasConfig THEN Append(doc.layers, doc.config) ELSE doc.layers

\* lines 153-163: acc = [paths, missing, raised]
RECURSIVE ProcessLayers(_, _, _, _, _)
ProcessLayers(f, layers, i, base_dir, acc) ==
    IF i > Len(layers) THEN acc
    ELSE LET layer == layers[i] IN
         IF layer.kind = "baddigest"
         THEN [acc EXCEPT !.raised = TRUE]
         ELSE IF layer.kind = "digest"
         THEN LET blob_path == BlobPath(layer.digest, base_dir) IN
              IF Exists(f, blob_path)
              THEN ProcessLayers(f, layers, i + 1, base_dir,
                                 [acc EXCEPT !.paths = Append(@, blob_path)])
              ELSE ProcessLayers(f, layers, i + 1, base_dir,
                                 [acc EXCEPT !.missing = @ + 1])
         ELSE ProcessLayers(f, layers, i + 1, base_dir, acc)

\* lines 50-67: the lines after the header that are not blank
RECURSIVE NonBlank(_, _)
NonBlank(lines, i) ==
    IF i > Len(lines) THEN <<>>
    ELSE (IF lines[i] # <<>> THEN <<lines[i]>> ELSE <<>>) \o NonBlank(lines, i + 1)

get_model_list(f) == NonBlank(f.listing.lines, 2)

\* the name column compared without regard to case
get_model_id_nocase(mn, f) ==
    LET models == get_model_list(f)
        hit(k) == Len(models[k]) >= 2 /\ Lower(models[k][1]) = Lower(mn)
    IN IF \E k \in DOMAIN models : hit(k)
       THEN models[CHOOSE k \in DOMAIN models : hit(k) /\ \A j \in 1..(k - 1) : ~hit(j)][2]
       ELSE <<>>

\* lines 185-192: <<>> stands for None
get_model_id(mn, f) ==
    LET models == get_model_list(f)
        hit(k) == Len(models[k]) >= 2 /\ models[k][1] = mn
    IN IF \E k \in DOMAIN models : hit(k)
       THEN models[CHOOSE k \in DOMAIN models : hit(k) /\ \A j \in 1..(k - 1) : ~hit(j)][2]
       ELSE <<>>

\* lines 175-178
RECURSIVE BlobsById(_, _, _, _)
BlobsById(blobs, i, model_id, blobs_dir) ==
    IF i > Len(blobs) THEN <<>>
    ELSE (IF Contains(Lower(model_id), Lower(blobs[i]))
          THEN <<JoinPath(<<blobs_dir, blobs[i]>>)>> ELSE <<>>)
         \o BlobsById(blobs, i + 1, model_id, blobs_dir)

\* lines 165-178: the except branch
ListingFallback(f, mn, base_dir) ==
    LET model_id == get_model_id(mn, f)
        blobs_dir == JoinPath(<<base_dir, <<"blobs">> >>)
    IN IF Exists(f, blobs_dir) /\ model_id # <<>>
       THEN BlobsById(f.blobs, 1, model_id, blobs_dir)
       ELSE <<>>

\* lines 85-182
find_model_files(mn, f, base_dir) ==
    LET pn == ParseName(mn)
        candidate == CandidatePath(pn.name, pn.version, base_dir)
        manifest_path == ResolveManifest(f, pn.name, candidate, base_dir)
        base == [name |-> pn.name, version |-> pn.version,
                 username |-> SplitNamespace(pn.name).username,
                 modelname |-> SplitNamespace(pn.name).modelname, candidate |-> candidate,
                 manifest_path |-> manifest_path, found |-> Exists(f, manifest_path),
                 file_paths |-> <<>>, missing |-> 0, raised |-> FALSE,
                 listCalls |-> 0, exited |-> FALSE]
    IN IF Exists(f, manifest_path)
       THEN LET readable == IsFile(f, manifest_path) /\ f.doc.kind = "ok"
                acc == IF readable
                       THEN ProcessLayers(f, AllLayers(f.doc), 1, base_dir,
                                [paths |-> <<manifest_path>>, missing |-> 0, raised |-> FALSE])
                       ELSE [paths |-> <<manifest_path>>, missing |-> 0, raised |-> TRUE]
            IN IF ~acc.raised
               THEN [base EXCEPT !.file_paths = acc.paths, !.missing = acc.missing]
               ELSE IF ~f.listing.ok
               THEN [base EXCEPT !.file_paths = acc.paths, !.missing = acc.missing,
                                 !.raised = TRUE, !.listCalls = 1, !.exited = TRUE]
               ELSE [base EXCEPT !.file_paths = acc.paths \o ListingFallback(f, mn, base_dir),
                                 !.missing = acc.missing, !.raised = TRUE, !.listCalls = 1]
       ELSE base

----------------------------------------------------------------------------
(* Inputs *)

Seps == {"/", ":"}

\* model names: no empty part between separators
WellFormed(s) ==
    /\ Len(s) >= 1
    /\ s[1] \notin Seps /\ s[Len(s)] \notin Seps
    /\ \A i \in 1..(Len(s) - 1) : ~(s[i] \in Seps /\ s[i + 1] \in Seps)

Names == {s \in SeqsUpTo({"a", "A", "/", ":"}, MaxNameLen) : WellFormed(s)}

\* sequences without repetition
Distinct(s) == \A i, j \in DOMAIN s : i # j => s[i] # s[j]

DistinctSeqs(S, n) == {s \in SeqsUpTo(S, n) : Distinct(s)}

RegistryDir == JoinPath(<<BaseDir, <<"manifests">>, <<"registry.ollama.ai">> >>)

LibraryDir == JoinPath(<<RegistryDir, <<"library">> >>)

DirPool == {JoinPath(<<LibraryDir, <<"a">> >>), JoinPath(<<LibraryDir, <<"b">> >>),
            JoinPath(<<RegistryDir, <<"b">>, <<"A">> >>),
            JoinPath(<<BaseDir, <<"manifests">>, <<"a">>, <<"a">> >>)}

FilePool == {<<"latest">>, <<"a">>, <<"b">>}

\* what os.walk can report: each directory once, file names distinct in a directory
Trees ==
    {t \in SeqsUpTo([root : DirPool, files : DistinctSeqs(FilePool, MaxFiles)], MaxDirs) :
        \A i, j \in DOMAIN t : i # j => t[i].root # t[j].root}

DigestX == <<"sha256", ":", "x">>
DigestY == <<"sha256", ":", "y">>

Entries == {[kind |-> "digest", digest |-> DigestX], [kind |-> "digest", digest |-> DigestY],
            [kind |-> "plain", digest |-> <<>>], [kind |-> "scalar", digest |-> <<>>],
            [kind |-> "baddigest", digest |-> <<>>]}

EmptyDoc == [kind |-> "ok", layers |-> <<>>, hasConfig |-> FALSE,
             config |-> [kind |-> "plain", digest |-> <<>>]]

Docs ==
    {[kind |-> "ok", layers |-> l, hasConfig |-> TRUE, config |-> c] :
        l \in SeqsUpTo(Entries, MaxLayers), c \in Entries}
    \cup {[EmptyDoc EXCEPT !.layers = l] : l \in SeqsUpTo(Entries, MaxLayers)}
    \cup {[EmptyDoc EXCEPT !.kind = "malformed"]}

BlobPool == {<<"sha256", "-", "x">>, <<"sha256", "-", "y">>, <<"sha256", "-", "X">>}

Header == <<<<"NAME">>, <<"ID">>>>

\* `ollama list` fails, or prints its header and one line per model (a blank line among them)
Listings ==
    {[ok |-> FALSE, lines |-> <<>>],
     [ok |-> TRUE, lines |-> <<Header>>],
     [ok |-> TRUE, lines |-> <<Header, <<<<"a">>, <<"x">>>>>>],
     [ok |-> TRUE, lines |-> <<Header, <<<<"A">>, <<"x">>>>, <<>>, <<<<"a">>, <<"y">>>>,
                               <<<<"a">>, <<"x">>>>>>]}

OneTree == <<[root |-> JoinPath(<<LibraryDir, <<"a">> >>), files |-> <<<<"latest">>>>]>>

FsBase == [rootExists |-> TRUE, tree |-> OneTree, doc |-> EmptyDoc, blobsDir |-> TRUE,
           blobs |-> <<>>, listing |-> [ok |-> TRUE, lines |-> <<Header>>]]

NoResult == [name |-> <<>>, version |-> <<>>, username |-> <<>>, modelname |-> <<>>,
             candidate |-> <<>>, manifest_path |-> <<>>,
             found |-> FALSE, file_paths |-> <<>>, missing |-> 0, raised |-> FALSE,
             listCalls |-> 0, exited |-> FALSE]

----------------------------------------------------------------------------
(* package_model is idle while find_model_files is called on its own *)

\* an empty directory listing: no name is mapped
NoFiles == [n \in {} |-> {}]

PkgIdle ==
    /\ pc = "idle" /\ model_name = <<>> /\ timestamp = 0 /\ model_files = <<>>
    /\ copied = 0 /\ clock = 0 /\ staging = NoFiles /\ archives = NoFiles /\ run = 0
    /\ hist = <<>> /\ faults = 0

\* a call find_model_files(lname, BaseDir)
Locate ==
    /\ lpc = "call"
    /\ lres' = find_model_files(lname, fs, BaseDir)
    /\ lpc' = "done"
    /\ UNCHANGED <<fs, lname>>
    /\ UNCHANGED pkgVars

NextLocate == Locate

\* every well-formed model name
InitNames ==
    /\ fs = FsBase /\ lname \in Names /\ lpc = "call" /\ lres = NoResult /\ PkgIdle

SpecNames == InitNames /\ [][NextLocate]_vars

\* every manifests tree
InitScan ==
    /\ fs \in {[FsBase EXCEPT !.tree = t] : t \in Trees}
    /\ lname \in {<<"a">>, <<"b", "/", "a">>, <<"a", "/", "a">>}
    /\ lpc = "call" /\ lres = NoResult /\ PkgIdle

SpecScan == InitScan /\ [][NextLocate]_vars

\* every manifest document, blobs directory and listing
InitManifest ==
    /\ fs \in {[FsBase EXCEPT !.doc = d, !.blobsDir = bd, !.blobs = b, !.listing = l] :
                d \in Docs, bd \in BOOLEAN, b \in DistinctSeqs(BlobPool, MaxBlobs),
                l \in {x \in Listings : Len(x.lines) <= 2}}
    /\ (~fs.blobsDir => fs.blobs = <<>>)
    /\ lname = <<"a">> /\ lpc = "call" /\ lres = NoResult /\ PkgIdle

SpecManifest == InitManifest /\ [][NextLocate]_vars

----------------------------------------------------------------------------
(* package_model *)

OutDir == <<"OUT">>

\* lines 78-82
clean_model_name(mn) == Replace(Replace(mn, "/", "_"), ":", "_")

\* line 208: the clock at second precision
strftime(t) == <<ToString(t)>>

\* lines 211-212
ArchivePath(mn, ts) ==
    JoinPath(<<OutDir, clean_model_name(mn) \o <<"_">> \o strftime(ts) \o <<".tar", ".gz">> >>)

\* line 235
TempDir(mn, ts) ==
    JoinPath(<<OutDir, <<"temp_">> \o clean_model_name(mn) \o <<"_">> \o strftime(ts)>>)

\* os.path.splitext(p)[0]
SplitextRoot(p) ==
    IF Len(p) > 1 /\ p[Len(p)] \in {".tar", ".gz"} /\ p[Len(p) - 1] # "/"
    THEN SubSeq(p, 1, Len(p) - 1) ELSE p

\* the base name without stripping the '.tar' that splitext leaves
BaseNameKeepTar(archive_path) == SplitextRoot(archive_path)

\* lines 252-254
BaseName(archive_path) ==
    LET base_name == SplitextRoot(archive_path)
    IN IF EndsWith(base_name, <<".tar">>) THEN SubSeq(base_name, 1, Len(base_name) - 1)
       ELSE base_name

\* the file shutil.make_archive(base_name, 'gztar', ...) writes
ArchiveFile(base_name) == base_name \o <<".tar", ".gz">>

\* the member names of make_archive(root_dir=temp_dir, base_dir='.')
ArchiveEntries(files) == {JoinPath(<<<<".">>, rel>>) : rel \in files}

\* the record of the running invocation
Cur == hist[run]

temp_dir == TempDir(model_name, timestamp)

archive_path == ArchivePath(model_name, timestamp)

\* the locals of package_model are gone once it has returned
Locals0 == model_name' = <<>> /\ timestamp' = 0 /\ model_files' = <<>> /\ copied' = 0

Return(result) ==
    /\ hist' = [hist EXCEPT ![run].result = result]
    /\ pc' = "idle"
    /\ Locals0

\* an I/O error or a signal; at most MaxFaults of them in one behaviour
Fault == faults < MaxFaults /\ faults' = faults + 1

\* time passes; only the second read at line 208 matters, so the clock moves between invocations
Tick ==
    /\ pc = "idle" /\ clock < MaxClock
    /\ clock' = clock + 1
    /\ UNCHANGED <<fs, locVars, pc, model_name, timestamp, model_files, copied, staging,
                   archives, run, hist, faults>>

NewRun(mn, ts, result) ==
    [name |-> mn, ts |-> ts, result |-> result, madeTemp |-> FALSE, wroteArchive |-> FALSE,
     findCalls |-> 0, listCalls |-> 0, files |-> <<>>]

\* lines 195-222 without the test of line 220
BeginNoRootCheck(mn) ==
    /\ pc = "idle" /\ run < MaxRuns
    /\ run' = run + 1 /\ model_name' = mn /\ timestamp' = clock
    /\ model_files' = <<>> /\ copied' = 0
    /\ hist' = Append(hist, NewRun(mn, clock, "running"))
    /\ pc' = "find"
    /\ UNCHANGED <<fs, locVars, clock, staging, archives, faults>>

\* lines 195-222: names are computed, the storage root is tested
Begin(mn) ==
    /\ pc = "idle" /\ run < MaxRuns
    /\ run' = run + 1
    /\ IF ~Exists(fs, BaseDir)
       THEN /\ hist' = Append(hist, NewRun(mn, clock, "false"))
            /\ pc' = "idle" /\ Locals0
       ELSE /\ hist' = Append(hist, NewRun(mn, clock, "running"))
            /\ pc' = "find" /\ model_name' = mn /\ timestamp' = clock
            /\ model_files' = <<>> /\ copied' = 0
    /\ UNCHANGED <<fs, locVars, clock, staging, archives, faults>>

\* lines 224-231
FindFiles ==
    /\ pc = "find"
    /\ LET r == find_model_files(model_name, fs, BaseDir)
           h == [Cur EXCEPT !.findCalls = @ + 1, !.listCalls = @ + r.listCalls,
                            !.files = r.file_paths]
       IN /\ lres' = r
          /\ IF r.exited
             THEN /\ hist' = [hist EXCEPT ![run] = [h EXCEPT !.result = "exit"]]
                  /\ pc' = "idle" /\ Locals0
             ELSE IF r.file_paths = <<>>
             THEN /\ hist' = [hist EXCEPT ![run] = [h EXCEPT !.result = "false"]]
                  /\ pc' = "idle" /\ Locals0
             ELSE /\ hist' = [hist EXCEPT ![run] = h]
                  /\ pc' = "copy0" /\ model_files' = r.file_paths
                  /\ UNCHANGED <<model_name, timestamp, copied>>
    /\ UNCHANGED <<fs, lpc, lname, clock, staging, archives, run, faults>>

\* lines 235-236: os.makedirs(temp_dir, exist_ok=True)
MakeTemp ==
    /\ pc = "copy0"
    /\ staging' = IF temp_dir \in DOMAIN staging THEN staging ELSE staging @@ (temp_dir :> {})
    /\ hist' = [hist EXCEPT ![run].madeTemp = TRUE]
    /\ pc' = "copy"
    /\ UNCHANGED <<fs, locVars, model_name, timestamp, model_files, copied, clock, archives, run,
                   faults>>

\* line 236 raises OSError
MakeTempFail ==
    /\ pc = "copy0"
    /\ Fault
    /\ pc' = "except"
    /\ UNCHANGED <<fs, locVars, model_name, timestamp, model_files, copied, clock, staging,
                   archives, run, hist>>

\* lines 239-249: one iteration of the copy loop
CopyFile ==
    /\ pc = "copy" /\ copied < Len(model_files)
    /\ LET rel_path == RelPath(model_files[copied + 1], BaseDir)
       IN staging' = [staging EXCEPT ![temp_dir] = @ \cup {rel_path}]
    /\ copied' = copied + 1
    /\ UNCHANGED <<fs, locVars, pc, model_name, timestamp, model_files, clock, archives, run, hist,
                   faults>>

\* line 246 or 249 raises
CopyFail ==
    /\ pc = "copy" /\ copied < Len(model_files)
    /\ Fault
    /\ pc' = "except"
    /\ UNCHANGED <<fs, locVars, model_name, timestamp, model_files, copied, clock, staging,
                   archives, run, hist>>

\* lines 251-261: the archive is written
MakeArchive ==
    /\ pc = "copy" /\ copied = Len(model_files)
    /\ LET file == ArchiveFile(BaseName(archive_path))
           content == [entries |-> ArchiveEntries(staging[temp_dir]), complete |-> TRUE,
                       writer |-> run]
       IN archives' = IF file \in DOMAIN archives THEN [archives EXCEPT ![file] = content]
                      ELSE archives @@ (file :> content)
    /\ hist' = [hist EXCEPT ![run].wroteArchive = TRUE]
    /\ pc' = "rmtree"
    /\ UNCHANGED <<fs, locVars, model_name, timestamp, model_files, copied, clock, staging, run,
                   faults>>

\* make_archive raises, before the file is opened or with a part of it written
ArchiveFail ==
    /\ pc = "copy" /\ copied = Len(model_files)
    /\ Fault
    /\ \/ UNCHANGED <<archives, hist>>
       \/ /\ LET file == ArchiveFile(BaseName(archive_path))
                 content == [entries |-> {}, complete |-> FALSE, writer |-> run]
             IN archives' = IF file \in DOMAIN archives THEN [archives EXCEPT ![file] = content]
                            ELSE archives @@ (file :> content)
          /\ hist' = [hist EXCEPT ![run].wroteArchive = TRUE]
    /\ pc' = "except"
    /\ UNCHANGED <<fs, locVars, model_name, timestamp, model_files, copied, clock, staging, run>>

Remove(dir) == [d \in (DOMAIN staging) \ {dir} |-> staging[d]]

\* lines 264-267
Cleanup ==
    /\ pc = "rmtree"
    /\ staging' = Remove(temp_dir)
    /\ Return("true")
    /\ UNCHANGED <<fs, locVars, clock, archives, run, faults>>

\* line 264 raises
CleanupFail ==
    /\ pc = "rmtree"
    /\ Fault
    /\ pc' = "except"
    /\ UNCHANGED <<fs, locVars, model_name, timestamp, model_files, copied, clock, staging,
                   archives, run, hist>>

\* lines 269-274
Handler ==
    /\ pc = "except"
    /\ staging' = IF temp_dir \in DOMAIN staging THEN Remove(temp_dir) ELSE staging
    /\ Return("false")
    /\ UNCHANGED <<fs, locVars, clock, archives, run, faults>>

\* line 273 raises inside the handler: the exception leaves package_model
HandlerFail ==
    /\ pc = "except" /\ temp_dir \in DOMAIN staging
    /\ Fault
    /\ Return("raised")
    /\ UNCHANGED <<fs, locVars, clock, staging, archives, run>>

\* KeyboardInterrupt or SystemExit inside the try block: `except Exception` does not catch it
Interrupt ==
    /\ pc \in {"copy0", "copy", "rmtree", "except"}
    /\ Fault
    /\ Return("raised")
    /\ UNCHANGED <<fs, locVars, clock, staging, archives, run>>

PkgNames == {<<"a">>, <<"b", "/", "a", ":", "a">>}

Next ==
    \/ Tick
    \/ \E mn \in PkgNames : Begin(mn)
    \/ FindFiles
    \/ MakeTemp
    \/ MakeTempFail
    \/ CopyFile
    \/ CopyFail
    \/ MakeArchive
    \/ ArchiveFail
    \/ Cleanup
    \/ CleanupFail
    \/ Handler
    \/ HandlerFail
    \/ Interrupt

\* a tree where only the fallback scan finds a manifest
ScanTree == <<[root |-> JoinPath(<<RegistryDir, <<"b">>, <<"A">> >>), files |-> <<<<"latest">>>>],
              [root |-> JoinPath(<<LibraryDir, <<"b">> >>), files |-> <<<<"a">>>>]>>

\* a manifest with one layer and a config
GoodDoc ==
    [kind |-> "ok", layers |-> <<[kind |-> "digest", digest |-> DigestX]>>, hasConfig |-> TRUE,
     config |-> [kind |-> "digest", digest |-> DigestY]]

\* a manifest that does not parse, and one that raises after its first blob
RaisingDocs ==
    {[EmptyDoc EXCEPT !.kind = "malformed"],
     [EmptyDoc EXCEPT !.layers = <<[kind |-> "digest", digest |-> DigestX],
                                   [kind |-> "baddigest", digest |-> <<>>]>>]}

AllBlobs == <<<<"sha256", "-", "X">>, <<"sha256", "-", "y">>, <<"sha256", "-", "x">>>>

PkgBlobs == {<<<<"sha256", "-", "x">>>>, AllBlobs}

FsNoRoot == [FsBase EXCEPT !.rootExists = FALSE, !.tree = <<>>, !.blobsDir = FALSE]

\* every way to a manifest with a good document; every raising document with every listing
PkgFs ==
    {[FsBase EXCEPT !.tree = t, !.doc = GoodDoc, !.blobs = b, !.listing = l] :
        t \in {OneTree, ScanTree, <<>>}, b \in PkgBlobs,
        l \in {x \in Listings : Len(x.lines) = 2}}
    \cup {[FsBase EXCEPT !.doc = d, !.blobs = AllBlobs, !.listing = l] :
        d \in RaisingDocs, l \in Listings}
    \cup {FsNoRoot}

Init ==
    /\ fs \in PkgFs
    /\ lpc = "none" /\ lname = <<>> /\ lres = NoResult
    /\ PkgIdle

Spec == Init /\ [][Next]_vars

----------------------------------------------------------------------------
(* Name resolution *)

\* C8: the raw model name is split on its LAST ':' into name and version, and the
\* version is "latest" when the name has no ':'.
C8_SplitOnLastColon ==
    lpc = "done" =>
        IF ":" \in Range(lname)
        THEN /\ lres.name = SubSeq(lname, 1, LastIndex(lname, ":") - 1)
             /\ lres.version = SubSeq(lname, LastIndex(lname, ":") + 1, Len(lname))
        ELSE lres.name = lname /\ lres.version = <<"latest">>

ManifestsPrefix == <<"ROOT", "/", "manifests", "/">>

\* C9: the candidate manifest path is <root>/manifests/<namespace>/<name>/<version>:
\* registry.ollama.ai/library for a name without '/', else the part before the first
\* '/' as one segment and the whole remainder as the name.
C9_CandidatePath ==
    lpc = "done" =>
        /\ IF "/" \notin Range(lres.name)
           THEN /\ lres.candidate = ManifestsPrefix \o <<"registry.ollama.ai", "/", "library", "/">>
                                        \o lres.name \o <<"/">> \o lres.version
                /\ lres.modelname = lres.name
           ELSE /\ lres.candidate = ManifestsPrefix \o lres.username \o <<"/">>
                                        \o lres.modelname \o <<"/">> \o lres.version
                /\ "/" \notin Range(lres.username)
                /\ lres.name = lres.username \o <<"/">> \o lres.modelname
        /\ (lname = <<"a">> =>
                lres.candidate = <<"ROOT", "/", "manifests", "/", "registry.ollama.ai", "/",
                                   "library", "/", "a", "/", "latest">>)

\* a name with a namespace and a '/' inside the name part has been resolved
C9_Witness ==
    /\ lpc = "done" /\ lname = <<"A", "/", "a", "/", "a">>
    /\ lres.username = <<"A">> /\ lres.modelname = <<"a", "/", "a">>
    /\ lres.version = <<"latest">>

----------------------------------------------------------------------------
(* Fallback scan *)

\* the files of the walk below registry.ollama.ai that match the name, as <<directory, file>> indexes
ScanMatches ==
    LET W == Walk(fs, RegistryDir)
    IN {m \in (DOMAIN W) \X (1..MaxFiles) :
            /\ m[2] \in DOMAIN W[m[1]].files
            /\ \/ Contains(Lower(lres.name), Lower(W[m[1]].files[m[2]]))
               \/ Contains(Lower(lres.name), Lower(W[m[1]].root))}

FirstScanMatch ==
    CHOOSE m \in ScanMatches :
        \A o \in ScanMatches : m[1] < o[1] \/ (m[1] = o[1] /\ m[2] <= o[2])

\* C7: when the candidate path does not exist, the manifest is the FIRST matching file
\* of the walk, also when several directories hold a match; with no match the manifest
\* is not found and the result is empty.
C7_FirstMatchWins ==
    (lpc = "done" /\ ~Exists(fs, lres.candidate)) =>
        IF ScanMatches # {}
        THEN LET W == Walk(fs, RegistryDir)
                 m == FirstScanMatch
             IN /\ lres.manifest_path = W[m[1]].root \o <<"/">> \o W[m[1]].files[m[2]]
                /\ lres.file_paths # <<>> /\ lres.file_paths[1] = lres.manifest_path
        ELSE ~lres.found /\ lres.file_paths = <<>>

----------------------------------------------------------------------------
(* Manifest processing *)

\* the entries of the manifest in processing order as C6 states it: layers, then config
DocEntries == IF fs.doc.hasConfig THEN fs.doc.layers \o <<fs.doc.config>> ELSE fs.doc.layers

BlobPresent(e) == fs.blobsDir /\ <<e.digest[1], "-", e.digest[3]>> \in Range(fs.blobs)

PresentIdx == {i \in DOMAIN DocEntries : DocEntries[i].kind = "digest" /\ BlobPresent(DocEntries[i])}

MissingIdx == {i \in DOMAIN DocEntries : DocEntries[i].kind = "digest" /\ ~BlobPresent(DocEntries[i])}

WellFormedDoc == fs.doc.kind = "ok" /\ \A i \in DOMAIN DocEntries : DocEntries[i].kind # "baddigest"

\* C6: for a well-formed manifest the result is the manifest path, then the blob path of
\* each digest-bearing entry whose blob exists, in layer order with config last; a missing
\* blob gives one warning each and never aborts.
C6_ManifestThenBlobs ==
    (lpc = "done" /\ lres.found /\ WellFormedDoc) =>
        /\ Len(lres.file_paths) = 1 + Cardinality(PresentIdx)
        /\ lres.file_paths[1] = lres.manifest_path
        /\ \A i \in PresentIdx :
              lres.file_paths[1 + Cardinality({j \in PresentIdx : j <= i})] =
                  <<"ROOT", "/", "blobs", "/", DocEntries[i].digest[1], "-", DocEntries[i].digest[3]>>
        /\ lres.missing = Cardinality(MissingIdx)
        /\ ~lres.raised /\ ~lres.exited /\ lres.listCalls = 0

\* two layers, one of them without its blob, and a config whose blob is there: 3 paths, 1 warning
C6_Witness ==
    /\ lpc = "done" /\ lres.found /\ WellFormedDoc
    /\ Len(fs.doc.layers) = 2 /\ fs.doc.hasConfig
    /\ \A i \in DOMAIN DocEntries : DocEntries[i].kind = "digest"
    /\ Cardinality(MissingIdx) = 1 /\ 3 \in PresentIdx
    /\ Len(lres.file_paths) = 3 /\ lres.missing = 1

----------------------------------------------------------------------------
(* Packaging *)

Finished == pc = "idle" /\ run >= 1

\* the names the claims give to the outputs of an invocation
SafeName(mn) == [i \in DOMAIN mn |-> IF mn[i] \in {"/", ":"} THEN "_" ELSE mn[i]]

ClaimedArchive(h) == <<"OUT", "/">> \o SafeName(h.name) \o <<"_", ToString(h.ts), ".tar", ".gz">>

ClaimedStaging(h) == <<"OUT", "/", "temp_">> \o SafeName(h.name) \o <<"_", ToString(h.ts)>>

\* C1: when an invocation that created the staging directory has finished, on any exit
\* path, the staging directory does not exist.
C1_StagingRemovedOnEveryExit ==
    (Finished /\ hist[run].madeTemp) => ClaimedStaging(hist[run]) \notin DOMAIN staging

\* C2: when package_model returns true, the archive <outputDir>/<safeName>_<timestamp>.tar.gz
\* exists and holds every file find_model_files returned at its path relative to the
\* storage root, and no member lies below the staging directory's name.
C2_ArchiveHoldsEveryFile ==
    (Finished /\ hist[run].result = "true") =>
        LET h == hist[run] IN
        /\ h.files = lres.file_paths /\ h.files # <<>>
        /\ ClaimedArchive(h) \in DOMAIN archives
        /\ archives[ClaimedArchive(h)].complete
        /\ archives[ClaimedArchive(h)].writer = run
        /\ \A i \in DOMAIN h.files :
              /\ SubSeq(h.files[i], 1, 2) = <<"ROOT", "/">>
              /\ <<".", "/">> \o SubSeq(h.files[i], 3, Len(h.files[i]))
                    \in archives[ClaimedArchive(h)].entries
        /\ \A e \in archives[ClaimedArchive(h)].entries :
              SubSeq(e, 1, 2) = <<".", "/">> /\ e[3] \in {"manifests", "blobs"}

\* a successful run whose manifest came from the fallback scan and that packed a blob too
C2_Witness ==
    /\ Finished /\ hist[run].result = "true"
    /\ lres.manifest_path # lres.candidate
    /\ Len(hist[run].files) >= 2
    /\ \E i \in DOMAIN hist[run].files : hist[run].files[i][3] = "blobs"

\* C3: two successful invocations for the same model name, also within one clock second,
\* leave two distinct archives, the first one untouched by the second.
C3_TwoRunsTwoArchives ==
    \A i, j \in DOMAIN hist :
        (i < j /\ hist[i].result = "true" /\ hist[j].result = "true"
               /\ hist[i].name = hist[j].name) =>
            /\ ClaimedArchive(hist[i]) # ClaimedArchive(hist[j])
            /\ ClaimedArchive(hist[i]) \in DOMAIN archives
            /\ archives[ClaimedArchive(hist[i])].writer = i

\* C4: when package_model returns false, neither its staging directory nor an archive it
\* wrote (whole or partial) is left; it returns true only when every copy and the
\* archive step succeeded.
C4_FalseLeavesNothing ==
    Finished =>
        LET h == hist[run] IN
        /\ h.result = "false" =>
              /\ ~(h.madeTemp /\ ClaimedStaging(h) \in DOMAIN staging)
              /\ ~(ClaimedArchive(h) \in DOMAIN archives
                      /\ archives[ClaimedArchive(h)].writer = run)
        /\ h.result = "true" =>
              /\ ClaimedArchive(h) \in DOMAIN archives
              /\ archives[ClaimedArchive(h)].complete
              /\ \A i \in DOMAIN h.files :
                    <<".", "/">> \o SubSeq(h.files[i], 3, Len(h.files[i]))
                        \in archives[ClaimedArchive(h)].entries

\* C5: with no storage root, package_model returns false, creates neither a staging
\* directory nor an archive at any point, and never calls find_model_files or the listing.
C5_NoRootNoOutput ==
    ~fs.rootExists =>
        /\ pc = "idle" /\ lres = NoResult
        /\ staging = NoFiles /\ archives = NoFiles
        /\ \A r \in DOMAIN hist :
              /\ hist[r].result = "false"
              /\ hist[r].findCalls = 0 /\ hist[r].listCalls = 0
              /\ ~hist[r].madeTemp /\ ~hist[r].wroteArchive

\* package_model has returned twice for a storage root that does not exist
C5_Witness == ~fs.rootExists /\ run = 2 /\ pc = "idle" /\ hist[2].result = "false"

----------------------------------------------------------------------------
(* Listing fallback *)

\* the invocations that have called find_model_files
FindRuns == {r \in DOMAIN hist : hist[r].findCalls > 0}

LastFind == CHOOSE r \in FindRuns : \A o \in FindRuns : o <= r

\* reading, parsing or processing the manifest raises
Raises ==
    /\ lres.found
    /\ \/ fs.doc.kind = "malformed"
       \/ \E i \in DOMAIN DocEntries : DocEntries[i].kind = "baddigest"
       \/ \E d \in DOMAIN fs.tree : fs.tree[d].root = lres.manifest_path

\* the entry at which processing raises (1 when nothing is processed at all)
RaiseAt ==
    IF fs.doc.kind = "ok" /\ \E i \in DOMAIN DocEntries : DocEntries[i].kind = "baddigest"
    THEN CHOOSE i \in DOMAIN DocEntries :
            DocEntries[i].kind = "baddigest" /\ \A j \in 1..(i - 1) : DocEntries[j].kind # "baddigest"
    ELSE 1

KeptIdx == {i \in PresentIdx : i < RaiseAt}

\* the lines of the listing after its header whose first column is the raw model name
NameLines(mn) ==
    {i \in 2..Len(fs.listing.lines) : fs.listing.lines[i] # <<>> /\ fs.listing.lines[i][1] = mn}

ListedId(mn) == fs.listing.lines[CHOOSE i \in NameLines(mn) : \A o \in NameLines(mn) : i <= o][2]

IdIdx(mn) ==
    IF NameLines(mn) = {} \/ ~fs.blobsDir THEN {}
    ELSE {k \in DOMAIN fs.blobs : Contains(Lower(ListedId(mn)), Lower(fs.blobs[k]))}

\* C10: when the manifest raises, find_model_files keeps the manifest path and the blobs
\* already appended, calls the listing once, takes the id of the first line whose name
\* column is the raw model name and appends every blob file whose name contains that id
\* without regard to case; the listing is called on no other path, and its failure ends
\* the program before a staging directory or an archive is created.
C10_ListingFallback ==
    FindRuns # {} =>
        LET r == LastFind
            mn == hist[r].name
            kept == 1 + Cardinality(KeptIdx)
        IN /\ lres.raised = Raises
           /\ lres.listCalls = (IF Raises THEN 1 ELSE 0)
           /\ hist[r].listCalls = lres.listCalls
           /\ lres.exited = (Raises /\ ~fs.listing.ok)
           /\ Raises =>
                /\ lres.file_paths[1] = lres.manifest_path
                /\ \A i \in KeptIdx :
                      lres.file_paths[1 + Cardinality({j \in KeptIdx : j <= i})] =
                          <<"ROOT", "/", "blobs", "/", DocEntries[i].digest[1], "-",
                            DocEntries[i].digest[3]>>
           /\ (Raises /\ fs.listing.ok) =>
                /\ Len(lres.file_paths) = kept + Cardinality(IdIdx(mn))
                /\ \A k \in IdIdx(mn) :
                      lres.file_paths[kept + Cardinality({j \in IdIdx(mn) : j <= k})] =
                          <<"ROOT", "/", "blobs", "/">> \o fs.blobs[k]
           /\ lres.exited =>
                /\ hist[r].result = "exit"
                /\ ~hist[r].madeTemp /\ ~hist[r].wroteArchive
                /\ (r = run => pc = "idle")

\* the manifest raised after one blob was appended, and the listing's id added another file
C10_Witness ==
    /\ FindRuns # {} /\ Raises /\ fs.listing.ok
    /\ Cardinality(KeptIdx) = 1
    /\ Cardinality(NameLines(hist[LastFind].name)) = 2
    /\ Cardinality(IdIdx(hist[LastFind].name)) = 1
    /\ Len(lres.file_paths) = 3

====
